---- MODULE Spec2Model ----
(***************************************************************************)
(* Model of vacuumTubeMenorah.ino: nine switched WS2812 LEDs with a        *)
(* candle-flicker mode and a rainbow mode, one cooperative polling loop.   *)
(*                                                                         *)
(* The program state is the sketch's globals (mode, candles, flickers,     *)
(* the three flickerMilliseconds* variables), the strip's pixel buffer,    *)
(* the local firstPixelHue of rainbow() and the position pc of the control *)
(* flow.  The environment is the millisecond clock, the ten input lines    *)
(* and the raw output of the pseudo-random generator.  The remaining       *)
(* variables only record what the last step did, for the properties.       *)
(***************************************************************************)
EXTENDS Integers, Sequences, FiniteSets

\* ---------------------------------------------------------------- constants
LED_COUNT == 9

flickerStartRed == 255
flickerStartGreen == 96
flickerStartBlue == 12

flickerDelayHigh == 50
flickerDelayLow == 50
flickerFlickerHigh == 40
flickerFlickerLow == 0

\* digitalRead levels of the Arduino core
LOW == 0
HIGH == 1
Levels == {LOW, HIGH}

\* rainbow(10) in loop()
RainbowWait == 10
\* firstPixelHue += 256
HueStep == 256
\* firstPixelHue < 5 * 65536
HueEnd == 5 * 65536

LEDs == 0 .. (LED_COUNT - 1)

\* ------------------------------------------------------------------- bounds
\* millis() is followed up to MaxTime; the clock stops there.
MaxTime == 4
\* Largest number of milliseconds between two calls of flicker().
MaxDt == 2
\* Largest raw value the pseudo-random generator returns in the model.
MaxRaw == 39
\* Largest elapsed time the long-run specification tells apart.
MaxGap == 2
\* Latest tick of a countdown period at which the long-run specification lets
\* the mode switch be moved.
MaxLineTick == 1

\* Raw generator outputs of one tick: the nine LEDs receive nine consecutive
\* values, and the vectors together cover every value up to MaxRaw.
RawBases == {k * LED_COUNT : k \in 0 .. (MaxRaw \div LED_COUNT)}
RawDraws == {[i \in LEDs |-> (b + i) % (MaxRaw + 1)] : b \in RawBases}

\* Levels of the nine LED switch lines offered to one poll.
AllHigh == [i \in LEDs |-> HIGH]
OddLow == [i \in LEDs |-> IF i % 2 = 1 THEN LOW ELSE HIGH]
PinPatterns == {AllHigh, OddLow}

VARIABLES
  pc,                             \* "setup", "loop" or "rainbow" (inside the sweep)
  mode,                           \* uint8_t mode
  candles,                        \* candles[i].state
  flickers,                       \* flickers[i]
  flickerMillisecondsCurrent,
  flickerMillisecondsDifference,
  flickerMillisecondsLast,
  firstPixelHue,                  \* loop variable of rainbow()
  pixels,                         \* the strip's pixel buffer, <<r, g, b>> per LED
  now,                            \* millis()
  shown,                          \* the frame of the last strip.show()
  frames,                         \* strip.show() calls of the running rainbow()
  ev,                             \* what the last step did
  lastPins,                       \* levels the last readSwitches() read on the LED lines
  lastModeRead,                   \* level the last readSwitches() read on MODE_PIN
  everDetected,                   \* some readSwitches() has returned true
  onlyHigh,                       \* every poll so far read all nine LED lines high
  modeLine,                       \* level held on MODE_PIN (long-run specification)
  ticks,                          \* throttled ticks so far, modulo 50
  px                              \* input and output of the pixel-write harness

vars == <<pc, mode, candles, flickers, flickerMillisecondsCurrent,
          flickerMillisecondsDifference, flickerMillisecondsLast, firstPixelHue,
          pixels, now, shown, frames, ev, lastPins, lastModeRead, everDetected,
          onlyHigh, modeLine, ticks, px>>

\* ------------------------------------------------------------ pure helpers
Off == <<0, 0, 0>>

\* strip.setPixelColor(n, r, g, b): the three arguments are uint8_t.  A pixel
\* is recorded as the color handed to the driver, before the driver's
\* brightness scaling.
ColorRGB(r, g, b) == <<r % 256, g % 256, b % 256>>

\* strip.setPixelColor(n, c): c is a packed 0x00RRGGBB.
ColorPacked(c) == <<(c \div 65536) % 256, (c \div 256) % 256, c % 256>>

\* Arduino random(min, max): min when the range is empty, else
\* min + (raw generator output % (max - min)).
RandomValue(lo, hi, raw) == IF lo >= hi THEN lo ELSE lo + (raw % (hi - lo))

\* 16-bit int of the AVR target, and uint16_t.
ToInt16(x) == LET m == x % 65536 IN IF m >= 32768 THEN m - 65536 ELSE m
ToUint16(x) == x % 65536

\* Adafruit_NeoPixel gamma table (gamma 2.6).
GammaTable ==
   << 0, 0, 0, 0, 0, 0, 0, 0, 0, 0, 0, 0, 0, 0, 0, 0,
      0, 0, 0, 0, 0, 0, 0, 0, 1, 1, 1, 1, 1, 1, 1, 1,
      1, 1, 1, 1, 2, 2, 2, 2, 2, 2, 2, 2, 3, 3, 3, 3,
      3, 3, 4, 4, 4, 4, 5, 5, 5, 5, 5, 6, 6, 6, 6, 7,
      7, 7, 8, 8, 8, 9, 9, 9, 10, 10, 10, 11, 11, 11, 12, 12,
      13, 13, 13, 14, 14, 15, 15, 16, 16, 17, 17, 18, 18, 19, 19, 20,
      20, 21, 21, 22, 22, 23, 24, 24, 25, 25, 26, 27, 27, 28, 29, 29,
      30, 31, 31, 32, 33, 34, 34, 35, 36, 37, 38, 38, 39, 40, 41, 42,
      42, 43, 44, 45, 46, 47, 48, 49, 50, 51, 52, 53, 54, 55, 56, 57,
      58, 59, 60, 61, 62, 63, 64, 65, 66, 68, 69, 70, 71, 72, 73, 75,
      76, 77, 78, 80, 81, 82, 84, 85, 86, 88, 89, 90, 92, 93, 94, 96,
      97, 99, 100, 102, 103, 105, 106, 108, 109, 111, 112, 114, 115, 117, 119, 120,
      122, 124, 125, 127, 129, 130, 132, 134, 136, 137, 139, 141, 143, 145, 146, 148,
      150, 152, 154, 156, 158, 160, 162, 164, 166, 168, 170, 172, 174, 176, 178, 180,
      182, 184, 186, 188, 191, 193, 195, 197, 199, 202, 204, 206, 209, 211, 213, 215,
      218, 220, 223, 225, 227, 230, 232, 235, 237, 240, 242, 245, 247, 250, 252, 255 >>

gamma8(x) == GammaTable[x + 1]

\* strip.gamma32(c): gamma8 on each byte of the packed color.
gamma32(c) ==
  gamma8((c \div 65536) % 256) * 65536 + gamma8((c \div 256) % 256) * 256 + gamma8(c % 256)

\* strip.ColorHSV(hue) with saturation and value 255: packed 0x00RRGGBB.
ColorHSV(hue16) ==
  LET h == (hue16 * 1530 + 32768) \div 65536
      rgb == IF h < 255 THEN <<255, h, 0>>
             ELSE IF h < 510 THEN <<510 - h, 255, 0>>
             ELSE IF h < 765 THEN <<0, 255, h - 510>>
             ELSE IF h < 1020 THEN <<0, 1020 - h, 255>>
             ELSE IF h < 1275 THEN <<h - 1020, 0, 255>>
             ELSE IF h < 1530 THEN <<255, 0, 1530 - h>>
             ELSE <<255, 0, 0>>
  IN rgb[1] * 65536 + rgb[2] * 256 + rgb[3]

\* ------------------------------------------------------------ readSwitches
\* candles[candleIndex].state after lines 168 and 169.
CandleState(level) ==
  LET fromLine == (level = LOW)
      forced == TRUE
  IN forced

\* Mutation: the test of the current mode is dropped for a low line.
ModeDiffersLevelOnly(modeButtonState, m) ==
  (modeButtonState = LOW) \/ (modeButtonState = HIGH /\ m = 1)

\* Mutation: the polarity of the mode line is inverted.
ModeDiffersInverted(modeButtonState, m) ==
  (modeButtonState = LOW /\ m = 1) \/ (modeButtonState = HIGH /\ m = 0)

\* The condition of line 176.
ModeDiffers(modeButtonState, m) ==
  (modeButtonState = LOW /\ m = 0) \/ (modeButtonState = HIGH /\ m = 1)

\* Mutation: the mode is stepped to the next number instead of toggled.
FlipModeIncrement(m) == m + 1

\* Lines 178-182.
FlipMode(m) == IF m = 1 THEN 0 ELSE 1

\* readSwitches(): the new candle states, the new mode, the return value.
readSwitches(pins, modeButtonState, m) ==
  [ candles |-> [i \in LEDs |-> CandleState(pins[i])],
    mode |-> IF ModeDiffers(modeButtonState, m) THEN FlipMode(m) ELSE m,
    ret |-> ModeDiffers(modeButtonState, m) ]

\* ------------------------------------------------------------------- state
NoEvent ==
  [op |-> "none", polled |-> FALSE, ret |-> FALSE, flushed |-> FALSE,
   writes |-> 0, resets |-> {}, delayDrawn |-> [i \in LEDs |-> -1], exit |-> "none",
   frames |-> 0, step |-> 0, hue |-> [i \in LEDs |-> 0],
   oldFlicker |-> [i \in LEDs |-> 0]]

InitProgram ==
  /\ pc = "setup"
  /\ mode = 0
  /\ candles = [i \in LEDs |-> FALSE]
  /\ flickers = [i \in LEDs |->
       [red |-> flickerStartRed, green |-> flickerStartGreen, blue |-> flickerStartBlue,
        delay |-> 0, flicker |-> 0, time |-> 0]]
  /\ flickerMillisecondsCurrent = 0
  /\ flickerMillisecondsDifference = 0
  /\ flickerMillisecondsLast = 0
  /\ firstPixelHue = 0
  /\ pixels = [i \in LEDs |-> Off]
  /\ now = 0
  /\ shown = [i \in LEDs |-> Off]
  /\ frames = 0
  /\ ev = NoEvent
  /\ lastPins = AllHigh
  /\ lastModeRead = HIGH
  /\ everDetected = FALSE
  /\ onlyHigh = TRUE
  /\ ticks = 0

Init ==
  /\ InitProgram
  /\ modeLine = HIGH
  /\ px = [state |-> TRUE, raw |-> 0, hue |-> 0, led |-> 0, out |-> Off, by |-> "none"]

\* What a poll leaves in the recording variables.
Polled(pins, modeButtonState, rs) ==
  /\ lastPins' = pins
  /\ lastModeRead' = modeButtonState
  /\ everDetected' = (everDetected \/ rs.ret)
  /\ onlyHigh' = (onlyHigh /\ pins = AllHigh)

\* setup(): clear and show the strip, read the switches once.  The levels
\* read come from pinSet and levelSet.
SetupWith(pinSet, levelSet) ==
  /\ pc = "setup"
  /\ \E pins \in pinSet, modeButtonState \in levelSet :
       LET rs == readSwitches(pins, modeButtonState, mode) IN
         /\ candles' = rs.candles
         /\ mode' = rs.mode
         /\ Polled(pins, modeButtonState, rs)
         /\ ev' = [NoEvent EXCEPT !.op = "setup", !.polled = TRUE, !.ret = rs.ret,
                                  !.flushed = TRUE]
  /\ pixels' = [i \in LEDs |-> Off]
  /\ shown' = [i \in LEDs |-> Off]
  /\ pc' = "loop"
  /\ UNCHANGED <<flickers, flickerMillisecondsCurrent, flickerMillisecondsDifference,
                 flickerMillisecondsLast, firstPixelHue, now, frames, modeLine, ticks, px>>

Setup == SetupWith(PinPatterns, Levels)

\* ----------------------------------------------------------------- flicker
\* Mutation: the gate opens after one millisecond.
FlickerGateAtLeastOne(difference) == difference >= 1

\* Mutation: the difference is taken the wrong way round.
FlickerGateReversed(difference) == (0 - difference) > 1

\* The time gate of line 198.
FlickerGate(difference) == difference > 1

\* Mutation: the clamp is missing.
ClampZeroMissing(x) == x

\* Lines 221-223: a channel that went negative is brought back to zero.
ClampZero(x) == IF x < 0 THEN 0 ELSE x

\* Mutation: the countdown is taken as run out one tick early.
NeedsResetEarly(f) == f.delay <= 1

\* Line 210: the countdown has run out.
NeedsReset(f) == f.delay <= 0

\* Lines 212-223: new countdown, new flicker magnitude, new colors.
ResetFlicker(f, rawDelay, rawFlicker) ==
  LET d == RandomValue(flickerDelayLow, flickerDelayHigh, rawDelay)
      m == RandomValue(flickerFlickerLow, flickerFlickerHigh, rawFlicker)
  IN [f EXCEPT !.delay = d, !.flicker = m,
               !.red = ClampZero(flickerStartRed - m),
               !.green = ClampZero(flickerStartGreen - m),
               !.blue = ClampZero(flickerStartBlue - m)]

\* Mutation: the switch state is ignored.
FlickerPixelAlwaysLit(state, f) == ColorRGB(f.green, f.red, f.blue)

\* Mutation: the channels are passed red first.
FlickerPixelRedFirst(state, f) ==
  IF state THEN ColorRGB(f.red, f.green, f.blue) ELSE ColorPacked(0)

\* Lines 227-231: the color handed to strip.setPixelColor for one LED.
FlickerPixel(state, f) ==
  IF state THEN ColorRGB(f.green, f.red, f.blue) ELSE ColorPacked(0)

\* Mutation: an LED that was just reset is not counted down.
CountDownSkipsFresh(f) ==
  IF f.delay >= flickerDelayLow THEN f ELSE [f EXCEPT !.delay = f.delay - 1]

\* Line 234.
CountDown(f) == [f EXCEPT !.delay = f.delay - 1]

\* The generator is only consulted for a range that is not empty.
DelayDraws ==
  IF flickerDelayLow >= flickerDelayHigh THEN {[i \in LEDs |-> 0]} ELSE RawDraws
FlickerDraws(fl) ==
  IF \E i \in LEDs : NeedsReset(fl[i]) THEN RawDraws ELSE {[i \in LEDs |-> 0]}

\* Mutation: the loop stops one LED early.
FlickerLoopShort == 0 .. (LED_COUNT - 2)

\* Line 207: the LEDs the loop of a tick visits.
FlickerLoop == 0 .. (LED_COUNT - 1)

\* Lines 201-237: the body of a throttled tick.
FlickerTick(pins, modeButtonState, rawDelay, rawFlicker) ==
  LET rs == readSwitches(pins, modeButtonState, mode)
      reset == {i \in FlickerLoop : NeedsReset(flickers[i])}
      fresh == [i \in LEDs |->
                  IF i \in reset
                  THEN ResetFlicker(flickers[i], rawDelay[i], rawFlicker[i])
                  ELSE flickers[i]]
  IN /\ candles' = rs.candles
     /\ mode' = rs.mode
     /\ Polled(pins, modeButtonState, rs)
     /\ flickerMillisecondsLast' = flickerMillisecondsCurrent'
     /\ pixels' = [i \in LEDs |->
                     IF i \in FlickerLoop THEN FlickerPixel(rs.candles[i], fresh[i])
                     ELSE pixels[i]]
     /\ flickers' = [i \in LEDs |->
                       IF i \in FlickerLoop THEN CountDown(fresh[i]) ELSE flickers[i]]
     /\ shown' = pixels'
     /\ ticks' = (ticks + 1) % 50
     /\ ev' = [NoEvent EXCEPT !.op = "flicker", !.polled = TRUE, !.ret = rs.ret,
                              !.flushed = TRUE, !.writes = Cardinality(FlickerLoop),
                              !.resets = reset,
                              !.oldFlicker = [i \in LEDs |-> flickers[i].flicker],
                              !.delayDrawn = [i \in LEDs |->
                                                IF i \in reset THEN fresh[i].delay ELSE -1]]

\* Mutation: the switches are polled before the time gate.
FlickerIdlePolls ==
  /\ \E pins \in PinPatterns, modeButtonState \in Levels :
       LET rs == readSwitches(pins, modeButtonState, mode) IN
         /\ candles' = rs.candles
         /\ mode' = rs.mode
         /\ Polled(pins, modeButtonState, rs)
         /\ ev' = [NoEvent EXCEPT !.op = "flicker", !.polled = TRUE, !.ret = rs.ret]
  /\ UNCHANGED <<flickers, pixels, shown, ticks>>

\* A call of flicker() whose gate (line 198) stays shut.
FlickerIdle ==
  /\ ev' = [NoEvent EXCEPT !.op = "flicker"]
  /\ UNCHANGED <<candles, mode, flickers, pixels, shown, ticks,
                 lastPins, lastModeRead, everDetected, onlyHigh>>

\* Lines 195-238, once millis() has returned now'.  last is the timestamp of
\* the last tick; the inputs of a tick come from the four sets.
FlickerCall(last, pinSet, levelSet, delayRaws, flickerRaws) ==
  /\ flickerMillisecondsCurrent' = now'
  /\ flickerMillisecondsDifference' = flickerMillisecondsCurrent' - last
  /\ IF FlickerGate(flickerMillisecondsDifference')
     THEN \E pins \in pinSet, modeButtonState \in levelSet,
             rawDelay \in delayRaws, rawFlicker \in flickerRaws :
            FlickerTick(pins, modeButtonState, rawDelay, rawFlicker)
     ELSE /\ FlickerIdle
          /\ flickerMillisecondsLast' = last
  /\ UNCHANGED <<pc, firstPixelHue, frames, modeLine, px>>

\* flicker(), called by loop() when mode is 0.
Flicker ==
  /\ pc = "loop"
  /\ mode = 0
  /\ \E dt \in 0 .. MaxDt :
       /\ now + dt <= MaxTime
       /\ now' = now + dt
  /\ FlickerCall(flickerMillisecondsLast, PinPatterns, Levels,
                 DelayDraws, FlickerDraws(flickers))

\* ----------------------------------------------------------------- rainbow
\* Mutation: the sweep runs one step too many.
RainbowCondInclusive(hue) == hue <= HueEnd

\* The loop condition of line 245.
RainbowCond(hue) == hue < HueEnd

\* Mutation: the sweep advances by one less than the step.
HueAdvanceShort(hue) == hue + HueStep - 1

\* Line 245: firstPixelHue += 256.
HueAdvance(hue) == hue + HueStep

\* Mutation: the break is missing.
RainbowAbortNever(changed) == FALSE

\* Line 248: leave the sweep when the poll reports a mode change.
RainbowAbort(changed) == changed

\* Mutation: without the L suffix, i * 65536 is computed in 16-bit int.
PixelHueIntOverflow(hue, i) == ToInt16(hue + (ToInt16(i * 65536) \div LED_COUNT))

\* Line 252: int pixelHue = firstPixelHue + (i * 65536L / strip.numPixels()).
PixelHue(hue, i) == ToInt16(hue + ((i * 65536) \div LED_COUNT))

\* Lines 254-258: the color handed to strip.setPixelColor for one LED.
RainbowPixel(state, pixelHue) ==
  IF state THEN ColorPacked(gamma32(ColorHSV(ToUint16(pixelHue)))) ELSE ColorPacked(0)

\* delay(wait): the clock moves on, up to the bound of the model.
ClockAfter(t, wait) == IF t + wait <= MaxTime THEN t + wait ELSE MaxTime

\* loop() calls rainbow(10) when mode is 1: the sweep starts at hue 0.
RainbowEnter ==
  /\ pc = "loop"
  /\ mode = 1
  /\ firstPixelHue' = 0
  /\ frames' = 0
  /\ pc' = IF RainbowCond(0) THEN "rainbow" ELSE "loop"
  /\ ev' = [NoEvent EXCEPT !.op = "enter"]
  /\ UNCHANGED <<mode, candles, flickers, flickerMillisecondsCurrent,
                 flickerMillisecondsDifference, flickerMillisecondsLast, pixels, now,
                 shown, lastPins, lastModeRead, everDetected, onlyHigh, modeLine, ticks,
                 px>>

\* Line 61: the strip is built with LED_COUNT pixels.
numPixels == LED_COUNT

\* Line 250: the pixels the loop of a frame visits.
RainbowLoop == 0 .. (numPixels - 1)

\* Lines 248-261: one iteration of the sweep, up to strip.show(): poll, then
\* either leave or draw one frame.
RainbowIteration(pinSet, levelSet) ==
  \E pins \in pinSet, modeButtonState \in levelSet :
    LET rs == readSwitches(pins, modeButtonState, mode)
        hues == [i \in LEDs |-> IF i \in RainbowLoop THEN PixelHue(firstPixelHue, i) ELSE 0]
    IN
      /\ candles' = rs.candles
      /\ mode' = rs.mode
      /\ Polled(pins, modeButtonState, rs)
      /\ IF RainbowAbort(rs.ret)
         THEN /\ pc' = "loop"
              /\ firstPixelHue' = 0
              /\ frames' = 0
              /\ ev' = [NoEvent EXCEPT !.op = "rainbow", !.polled = TRUE,
                                       !.ret = rs.ret, !.exit = "abort",
                                       !.frames = frames]
              /\ UNCHANGED <<pixels, shown>>
         ELSE /\ pixels' = [i \in LEDs |->
                              IF i \in RainbowLoop
                              THEN RainbowPixel(rs.candles[i], hues[i])
                              ELSE pixels[i]]
              /\ shown' = pixels'
              /\ IF RainbowCond(HueAdvance(firstPixelHue))
                 THEN /\ pc' = "rainbow"
                      /\ firstPixelHue' = HueAdvance(firstPixelHue)
                      /\ frames' = frames + 1
                      /\ ev' = [NoEvent EXCEPT !.op = "rainbow", !.polled = TRUE,
                                               !.ret = rs.ret, !.flushed = TRUE,
                                               !.writes = Cardinality(RainbowLoop),
                                               !.step = frames, !.hue = hues]
                 ELSE /\ pc' = "loop"
                      /\ firstPixelHue' = 0
                      /\ frames' = 0
                      /\ ev' = [NoEvent EXCEPT !.op = "rainbow", !.polled = TRUE,
                                               !.ret = rs.ret, !.flushed = TRUE,
                                               !.writes = Cardinality(RainbowLoop),
                                               !.exit = "done", !.frames = frames + 1,
                                               !.step = frames, !.hue = hues]

\* One iteration of the sweep; delay(wait) follows the flush of a frame.
RainbowStep ==
  /\ pc = "rainbow"
  /\ RainbowIteration(PinPatterns, Levels)
  /\ now' = IF ev'.flushed THEN ClockAfter(now, RainbowWait) ELSE now
  /\ UNCHANGED <<flickers, flickerMillisecondsCurrent, flickerMillisecondsDifference,
                 flickerMillisecondsLast, modeLine, ticks, px>>

\* ----------------------------------------------------------- specification
Next == Setup \/ Flicker \/ RainbowEnter \/ RainbowStep

Spec == Init /\ [][Next]_vars

\* ------------------------------------------------- long-run specification
\* The program run without an end of time.  The level of the mode line is held
\* in modeLine and changed by LineChange.  Instants are kept relative to a
\* sliding origin: when millis() would pass MaxGap, now stays at MaxGap and
\* the timestamp of the last tick moves back by the excess, not below 0.
SlideNow(t, dt) == IF t + dt <= MaxGap THEN t + dt ELSE MaxGap

SlideLast(t, dt, last) ==
  IF t + dt <= MaxGap THEN last
  ELSE IF last - (t + dt - MaxGap) < 0 THEN 0 ELSE last - (t + dt - MaxGap)

\* Inputs of the long run: all LED switches open, one vector of raw draws.
RunPins == {AllHigh}
RunDraws(fl) ==
  IF \E i \in LEDs : NeedsReset(fl[i])
  THEN {[i \in LEDs |-> (LED_COUNT + i) % (MaxRaw + 1)]}
  ELSE {[i \in LEDs |-> 0]}

RunInit ==
  /\ InitProgram
  /\ modeLine \in Levels
  /\ px = [state |-> TRUE, raw |-> 0, hue |-> 0, led |-> 0, out |-> Off, by |-> "none"]

RunSetup == SetupWith(RunPins, {modeLine})

\* flicker() called dt milliseconds after the previous reading of millis().
RunFlicker(dt) ==
  /\ pc = "loop"
  /\ mode = 0
  /\ now' = SlideNow(now, dt)
  /\ FlickerCall(SlideLast(now, dt, flickerMillisecondsLast), RunPins, {modeLine},
                 DelayDraws, RunDraws(flickers))

RunFlickerAny == \E dt \in 0 .. MaxDt : RunFlicker(dt)

\* A call of flicker() before which the clock has advanced.
RunFlickerLater == \E dt \in 1 .. MaxDt : RunFlicker(dt)

RunRainbowStep ==
  /\ pc = "rainbow"
  /\ RainbowIteration(RunPins, {modeLine})
  /\ now' = IF ev'.flushed THEN SlideNow(now, RainbowWait) ELSE now
  /\ flickerMillisecondsLast' =
       IF ev'.flushed THEN SlideLast(now, RainbowWait, flickerMillisecondsLast)
       ELSE flickerMillisecondsLast
  /\ UNCHANGED <<flickers, flickerMillisecondsCurrent, flickerMillisecondsDifference,
                 modeLine, ticks, px>>

\* The mode switch is moved.
LineChange ==
  /\ ticks <= MaxLineTick
  /\ modeLine' = IF modeLine = LOW THEN HIGH ELSE LOW
  /\ UNCHANGED <<pc, mode, candles, flickers, flickerMillisecondsCurrent,
                 flickerMillisecondsDifference, flickerMillisecondsLast, firstPixelHue,
                 pixels, now, shown, frames, ev, lastPins, lastModeRead, everDetected,
                 onlyHigh, ticks, px>>

RunNext == RunSetup \/ RunFlickerAny \/ RainbowEnter \/ RunRainbowStep \/ LineChange

SpecRun == RunInit /\ [][RunNext]_vars

\* The loop keeps running and the millisecond clock keeps advancing.
SpecLive ==
  /\ SpecRun
  /\ WF_vars(RunSetup)
  /\ WF_vars(RunFlickerLater)
  /\ WF_vars(RainbowEnter)
  /\ WF_vars(RunRainbowStep)

\* ------------------------------------------------------ pixel-write harness
\* The two pixel writes (lines 227-231 and 254-258) applied to a candle state,
\* a flicker magnitude and a hue given from outside.
PixelHues == {0, HueStep, 32768, HueEnd - HueStep}

PixelInit ==
  /\ InitProgram
  /\ modeLine = HIGH
  /\ px \in [state : BOOLEAN, raw : 0 .. MaxRaw, hue : PixelHues,
             led : {0, LED_COUNT - 1}, out : {Off}, by : {"none"}]

PixelFlicker ==
  /\ px.by = "none"
  /\ px' = [px EXCEPT !.by = "flicker",
                      !.out = FlickerPixel(px.state,
                                           ResetFlicker(flickers[px.led], 0, px.raw))]
  /\ UNCHANGED <<pc, mode, candles, flickers, flickerMillisecondsCurrent,
                 flickerMillisecondsDifference, flickerMillisecondsLast, firstPixelHue,
                 pixels, now, shown, frames, ev, lastPins, lastModeRead, everDetected,
                 onlyHigh, modeLine, ticks>>

PixelRainbow ==
  /\ px.by = "none"
  /\ px' = [px EXCEPT !.by = "rainbow",
                      !.out = RainbowPixel(px.state, PixelHue(px.hue, px.led))]
  /\ UNCHANGED <<pc, mode, candles, flickers, flickerMillisecondsCurrent,
                 flickerMillisecondsDifference, flickerMillisecondsLast, firstPixelHue,
                 pixels, now, shown, frames, ev, lastPins, lastModeRead, everDetected,
                 onlyHigh, modeLine, ticks>>

PixelNext == PixelFlicker \/ PixelRainbow

SpecPixel == PixelInit /\ [][PixelNext]_vars

\* ------------------------------------------------------------------ claims
\* A throttled tick, as the last step: poll, nine pixel writes, one flush.
Ticked == ev.op = "flicker" /\ ev.polled /\ ev.flushed /\ ev.writes = LED_COUNT

\* C1: after every readSwitches call each candle's state is true exactly when
\* its line read low.
C1_StateIffLineLow ==
  ev.polled => \A i \in LEDs : candles[i] = (lastPins[i] = LOW)

\* C2: a pixel written while its candle's state is false is written as off,
\* in the flicker write and in the rainbow write, whatever color was computed.
C2_OffWhenStateFalse ==
  /\ (px.by # "none" /\ ~px.state) => px.out = Off
  /\ \A i \in LEDs : (ev.writes = LED_COUNT /\ ~candles[i]) => pixels[i] = Off

C2_Witness ==
  /\ px.by = "rainbow" /\ ~px.state /\ px.out = Off
  /\ ColorPacked(gamma32(ColorHSV(ToUint16(PixelHue(px.hue, px.led))))) # Off

\* C3: with all nine switch lines high at every poll, every frame flushed by
\* the flicker animator is all off.
C3_AllOffWhenSwitchesOff ==
  (onlyHigh /\ ev.op = "flicker" /\ ev.flushed) => \A i \in LEDs : shown[i] = Off

\* C4: once a poll has detected a mode transition, a following poll that reads
\* the same level on the mode line as the poll before it returns false and
\* leaves mode unchanged.
C4_EdgeTriggered ==
  [][(everDetected /\ ev'.polled /\ lastModeRead' = lastModeRead)
       => (~ev'.ret /\ mode' = mode)]_vars

C4_Witness ==
  everDetected /\ ev.polled /\ ~ev.ret /\ mode = 1 /\ lastModeRead = LOW

\* C5: a rainbow() call in which no poll reports a mode change flushes exactly
\* 1280 frames, at hues 0, 256, ..., 327424, and then returns to loop().
C5_FullSweep ==
  /\ pc = "rainbow" => (frames < 1280 /\ firstPixelHue = 256 * frames
                        /\ firstPixelHue <= 327424)
  /\ (ev.op = "rainbow" /\ ev.exit # "none" /\ ~ev.ret)
       => (ev.frames = 1280 /\ ev.flushed /\ pc = "loop")

C5_Witness ==
  ev.op = "rainbow" /\ ev.exit = "done" /\ ev.frames = 1280 /\ pc = "loop"

\* C6: a poll of the sweep that finds the mode line at a new level ends
\* rainbow(): no pixel is written and no frame flushed after the poll, fewer
\* than 1280 frames were flushed, mode is Flicker on return, and the next
\* iteration of loop() runs flicker().
C6_AbortOnModeChange ==
  [][ /\ (pc = "rainbow" /\ ev'.polled /\ lastModeRead' # lastModeRead)
         => /\ ev'.exit = "abort" /\ ~ev'.flushed /\ ev'.writes = 0
            /\ pixels' = pixels /\ shown' = shown
            /\ ev'.frames = frames /\ ev'.frames < 1280
            /\ mode' = 0 /\ pc' = "loop"
      /\ (ev.op = "rainbow" /\ ev.exit = "abort") => ev'.op = "flicker" ]_vars

C6_Witness ==
  /\ ev.op = "rainbow" /\ ev.exit = "abort" /\ ev.frames > 0
  /\ mode = 0 /\ pc = "loop" /\ lastModeRead = HIGH

\* C7: after a color reset with magnitude m the LED's red, green and blue are
\* max(0, 255 - m), max(0, 96 - m) and max(0, 12 - m); no channel is negative
\* when it is pushed to the strip.
C7_ClampedColors ==
  LET max0(x) == IF x > 0 THEN x ELSE 0 IN
  \A i \in LEDs :
    /\ flickers[i].red = max0(255 - flickers[i].flicker)
    /\ flickers[i].green = max0(96 - flickers[i].flicker)
    /\ flickers[i].blue = max0(12 - flickers[i].flicker)
    /\ flickers[i].red >= 0 /\ flickers[i].green >= 0 /\ flickers[i].blue >= 0
    /\ \A c \in 1 .. 3 : pixels[i][c] >= 0

C7_Witness ==
  /\ Ticked /\ ev.resets = LEDs
  /\ \E i \in LEDs : flickers[i].flicker = 39 /\ flickers[i].blue = 0 /\ pixels[i][3] = 0
  /\ \E i \in LEDs : flickers[i].flicker = 0 /\ flickers[i].blue = 12 /\ pixels[i][3] = 12

\* C8: a flicker tick pushes the color of every LED whose candle state is true
\* with the LED's green first, its red second and its blue third.
C8_GreenRedBlue ==
  Ticked => \A i \in LEDs :
    candles[i] => pixels[i] = <<flickers[i].green, flickers[i].red, flickers[i].blue>>

C8_Witness ==
  /\ Ticked
  /\ \E i \in LEDs : /\ candles[i]
                     /\ pixels[i][1] = flickers[i].green
                     /\ pixels[i][2] = flickers[i].red
                     /\ flickers[i].green # flickers[i].red

\* C9: a reset draws its new countdown in [0,50) and its new magnitude in [0,40).
C9_DrawsInRange ==
  Ticked => \A i \in ev.resets :
    /\ ev.delayDrawn[i] >= 0 /\ ev.delayDrawn[i] < 50
    /\ flickers[i].flicker >= 0 /\ flickers[i].flicker < 40

\* C10 as stated: a call of flicker() ticks exactly when at least 1 ms has
\* passed since the last tick.
C10_TickAtOneMs ==
  ev.op = "flicker" => (Ticked <=> flickerMillisecondsDifference >= 1)

\* C10: a call of flicker() ticks exactly when more than 1 ms (at least 2 ms)
\* has passed since the last tick; a call that does not tick polls nothing,
\* writes nothing and flushes nothing.
C10_TickAfterTwoMs ==
  ev.op = "flicker" =>
    /\ Ticked <=> flickerMillisecondsDifference >= 2
    /\ ~Ticked => (~ev.polled /\ ~ev.flushed /\ ev.writes = 0)
    /\ Ticked => flickerMillisecondsLast = flickerMillisecondsCurrent

C10_Witness ==
  Ticked /\ flickerMillisecondsDifference = 2

\* C11: mode is always 0 (Flicker) or 1 (Rainbow), and an iteration of loop()
\* runs exactly one animator: flicker() when mode is 0 at its start,
\* rainbow(10) when mode is 1.
C11_OneAnimator ==
  /\ [](/\ mode \in {0, 1}
        /\ pc = "loop" => ((ENABLED Flicker) # (ENABLED RainbowEnter)))
  /\ [][ pc = "loop" =>
           /\ mode = 0 => (ev'.op = "flicker" /\ pc' = "loop")
           /\ mode = 1 => (ev'.op = "enter" /\ pc' = "rainbow" /\ RainbowWait = 10)
       ]_vars

C11_Witness ==
  ev.op = "enter" /\ pc = "rainbow" /\ mode = 1 /\ everDetected

\* C18: right after every readSwitches call, the one in setup() included,
\* mode is Rainbow exactly when the mode line read low in that call, and the
\* call returned true exactly when it changed mode.
C18_ModeFollowsLevel ==
  [][ev'.polled => /\ (mode' = 1) <=> (lastModeRead' = LOW)
                   /\ ev'.ret <=> (mode' # mode)]_vars

C18_Witness ==
  /\ ev.op = "flicker" /\ ev.polled /\ ev.ret
  /\ mode = 1 /\ lastModeRead = LOW

\* C13: a tick counts every LED's countdown down by exactly 1: an LED reset in
\* the tick ends it at the drawn delay minus 1, any other LED at its old
\* countdown minus 1, whatever its candle state.
C13_CountDownByOne ==
  [][Ticked' => \A i \in LEDs :
       flickers'[i].delay =
         (IF i \in ev'.resets THEN ev'.delayDrawn[i] ELSE flickers[i].delay) - 1]_vars

C13_Witness ==
  /\ Ticked /\ ev.resets = {}
  /\ \A i \in LEDs : flickers[i].delay = 48

\* C14: a flush never shows a partly updated frame: a tick that polls also
\* flushes, and every frame flushed by flicker() or rainbow() follows a write
\* of each of the nine pixels with the value computed for it in that step.
C14_WholeFrames ==
  /\ (ev.op = "flicker" /\ ev.polled) => ev.flushed
  /\ (ev.flushed /\ ev.op \in {"flicker", "rainbow"}) =>
       /\ ev.writes = 9
       /\ shown = pixels
       /\ \A i \in LEDs :
            shown[i] = IF ev.op = "flicker"
                       THEN FlickerPixel(candles[i], flickers[i])
                       ELSE RainbowPixel(candles[i], ev.hue[i])

C14_Witness ==
  Ticked /\ ev.resets = LEDs /\ shown = pixels /\ shown[8] # Off /\ shown[0] # shown[8]

\* C15: in every rainbow frame the hue of LED i lies floor(i * 65536 / 9)
\* ahead of the hue of LED 0 on the 16-bit wheel: 0 for LED 0, growing by
\* 7281 or 7282 per LED, 58254 for LED 8.
C15_HueOffsets ==
  (ev.op = "rainbow" /\ ev.flushed) =>
    LET off(i) == (ev.hue[i] - ev.hue[0]) % 65536 IN
      /\ off(0) = 0
      /\ \A i \in LEDs : off(i) = (i * 65536) \div 9
      /\ \A i \in 1 .. 8 : off(i) - off(i - 1) \in {7281, 7282}
      /\ off(8) = 58254 /\ off(8) < 65536

C15_Witness ==
  ev.op = "rainbow" /\ ev.flushed /\ ev.hue[0] = 256 /\ ev.hue[8] = 58510 - 65536

\* C16: the hue converted for LED i at step k of the sweep is
\* (256 * k + floor(i * 65536 / 9)) mod 65536, so the frame of step k is the
\* frame of step k mod 256 and the 1280 steps are 5 turns of the same 256 frames.
C16_HueWraps ==
  (ev.op = "rainbow" /\ ev.flushed) =>
    /\ ev.step \in 0 .. 1279
    /\ \A i \in LEDs :
         /\ ev.hue[i] % 65536 = (256 * ev.step + ((i * 65536) \div 9)) % 65536
         /\ shown[i] = RainbowPixel(candles[i],
                                    256 * (ev.step % 256) + ((i * 65536) \div 9))

C16_Witness ==
  /\ ev.op = "rainbow" /\ ev.flushed /\ ev.step = 1279 /\ ev.exit = "done"
  /\ shown[0] = RainbowPixel(TRUE, 256 * 255)

\* C17: a call of flicker() that is not a tick polls nothing, flushes nothing
\* and leaves mode, the candle states, the flicker states, the pixel buffer
\* and the timestamp of the last tick as they were.
C17_IdleCallNoEffect ==
  [][(ev'.op = "flicker" /\ ~Ticked') =>
       /\ ~ev'.polled /\ ~ev'.flushed /\ ev'.writes = 0
       /\ UNCHANGED <<mode, candles, flickers, pixels, shown, flickerMillisecondsLast,
                      lastPins, lastModeRead>>]_vars

C17_Witness ==
  /\ ev.op = "flicker" /\ ~ev.polled /\ flickerMillisecondsDifference = 1
  /\ flickerMillisecondsLast > 0 /\ flickers[0].delay = 49

\* C12: if from some point on the mode line is held at one level, then, the
\* loop running and the clock advancing, mode eventually is the mode of that
\* level (low = Rainbow, high = Flicker) for good, and from then on only that
\* mode's animator runs.
C12_LiveModeSwitch ==
  /\ <>[](modeLine = LOW) => <>[](mode = 1 /\ ev.op \in {"enter", "rainbow"})
  /\ <>[](modeLine = HIGH) => <>[](mode = 0 /\ ev.op = "flicker")

C12_Witness ==
  /\ modeLine = LOW /\ mode = 1 /\ ev.op = "rainbow" /\ ev.flushed
  /\ ticks > 0 /\ everDetected

====
